---- MODULE Spec2Model ----
(***************************************************************************)
(* A model of etl.py: the batch job that turns the song catalogue and the  *)
(* listening log into the relations songs, artists, users, time and        *)
(* songplays.                                                              *)
(*                                                                         *)
(* A data frame is a sequence of rows (a bag: the same row may occur       *)
(* twice), a row is a record.  Each action is one statement group of the   *)
(* script, taken up to and including the write that makes the engine run   *)
(* it.  Every call into the engine or the storage layer may raise; the     *)
(* script catches nothing, so a raise ends the run (action Raise).         *)
(*                                                                         *)
(* The script uses names it never binds (monotonically_increasing_id, day, *)
(* week, song_df) and passes "x as y" strings to select.  Each is modelled *)
(* by the engine operation its text denotes; the run in which the          *)
(* statement raises instead is a behaviour of the model too, through       *)
(* Raise.  So is the run of the file as it stands, which stops while it    *)
(* loads (line 146 is indented a column too far; line 13 assigns a         *)
(* configuration section to os.environ): Raise at the first statement      *)
(* group.  date_conversion is not defined in the file: it is modelled from *)
(* the specification (raw epoch milliseconds to a date-time value).        *)
(***************************************************************************)
EXTENDS Integers, Sequences, FiniteSets, TLC

\* ------------------------------------------------------------------ bounds

\* The most song records the song_data files hold.
MaxSongs == 2

\* The most log events the log_data files hold.
MaxEvents == 2

\* ------------------------------------------------------------ value domains

Titles == {"t1", "t2"}
ArtistIds == {"A1", "A2"}
ArtistNames == {"n1", "n2"}
UserIds == {1, 2}

\* The artist names that occur in song-played events.
LoggedArtists == {"n1"}

\* A JSON null in a string column.
NullStr == "null"

\* A nullable value of an output row: <<>> is null, <<v>> is the value v.
Null == <<>>

Some(v) == <<v>>

\* Raw ts values (epoch milliseconds, written as whole seconds plus
\* milliseconds): 2018-11-30 23:59:59.999 and 2018-12-01 00:00:00.000 UTC.
TsValues == {[sec |-> 1543622399, ms |-> 999], [sec |-> 1543622400, ms |-> 0]}

\* ---------------------------------------------------------------- sequences

RECURSIVE SetToSeq(_)
SetToSeq(S) ==
    IF S = {} THEN <<>>
    ELSE LET x == CHOOSE y \in S : TRUE IN <<x>> \o SetToSeq(S \ {x})

RECURSIVE FlattenSeq(_)
FlattenSeq(ss) == IF ss = <<>> THEN <<>> ELSE Head(ss) \o FlattenSeq(Tail(ss))

Range(s) == {s[i] : i \in 1..Len(s)}

\* The files of a glob as one data frame: every bag of at most max records
\* of the pool, each bag once (the order of the rows of a frame carries no
\* meaning).
Frames(pool, max) ==
    LET N == Len(pool)
        idx == UNION {[1..n -> 1..N] : n \in 0..max}
    IN  {[i \in 1..Len(s) |-> pool[s[i]]] :
            s \in {t \in idx : \A i \in 1..(Len(t) - 1) : t[i] <= t[i + 1]}}

\* ------------------------------------------------------------- input schemas

\* The rows the song schema admits.
SongRecords ==
    {[num_songs |-> 1, artist_id |-> a, artist_latitude |-> 0,
      artist_longitude |-> 0, artist_location |-> "loc", artist_name |-> n,
      song_id |-> "S", title |-> t, duration |-> 180, year |-> 2000] :
        a \in ArtistIds, n \in ArtistNames, t \in Titles}

LogRecord(page, user, song, artist, ts) ==
    [artist |-> artist, auth |-> "Logged In", firstName |-> "f", gender |-> "F",
     itemInSession |-> 0, lastName |-> "l", length |-> 180, level |-> "free",
     location |-> "city", method |-> "PUT", page |-> page, registration |-> "r",
     sessionId |-> 1, song |-> song, status |-> 200, ts |-> ts,
     userAgent |-> "ua", userId |-> user]

\* The rows the log schema admits: a song-played event names a song and its
\* artist, any other page carries null for both.
LogRecords ==
    {LogRecord("NextSong", u, t, n, ts) :
        u \in UserIds, t \in Titles, n \in LoggedArtists, ts \in TsValues}
    \cup {LogRecord("Home", u, NullStr, NullStr, ts) : u \in UserIds, ts \in TsValues}

SongPool == SetToSeq(SongRecords)

LogPool == SetToSeq(LogRecords)

\* ------------------------------------------------------ data frame operations

\* The rows of df at which keep holds, in order: df.filter(cond) with keep
\* the value of cond row by row.
Filter(df, keep) ==
    LET idx == SelectSeq([i \in 1..Len(df) |-> i], LAMBDA i : keep[i])
    IN  [k \in 1..Len(idx) |-> df[idx[k]]]

\* df.dropDuplicates(): one row of each value.
RECURSIVE dropDuplicates(_)
dropDuplicates(df) ==
    IF df = <<>> THEN <<>>
    ELSE LET rest == dropDuplicates(Tail(df))
         IN  IF Head(df) \in Range(rest) THEN rest ELSE <<Head(df)>> \o rest

\* A column equality of a join condition: null equals nothing.
EqStr(a, b) == a # NullStr /\ b # NullStr /\ a = b

\* left.join(right, cond): an inner join, the default join type.  on[i][j]
\* is the value of cond on row i of left and row j of right; the result is
\* the pairs <<l, r>> of the rows cond holds on.
Join(left, right, on) ==
    FlattenSeq([i \in 1..Len(left) |->
        LET m == Filter(right, on[i])
        IN  [j \in 1..Len(m) |-> <<left[i], m[j]>>]])

\* left.join(right, cond, "left"): a left row without a match is kept once,
\* with null for the right side.
LeftJoin(left, right, on) ==
    FlattenSeq([i \in 1..Len(left) |->
        LET m == Filter(right, on[i])
        IN  IF m = <<>> THEN <<<<left[i], Null>>>>
            ELSE [j \in 1..Len(m) |-> <<left[i], Some(m[j])>>]])

\* ------------------------------------------------------------------ calendar

SecondsPerDay == 24 * 60 * 60

\* The civil date of a day number (days since 1970-01-01), proleptic
\* Gregorian calendar.
CivilFromDays(days) ==
    LET z == days + 719468
        era == z \div 146097
        doe == z - era * 146097
        yoe == (doe - doe \div 1460 + doe \div 36524 - doe \div 146096) \div 365
        doy == doe - (365 * yoe + yoe \div 4 - yoe \div 100)
        mp == (5 * doy + 2) \div 153
        d == doy - (153 * mp + 2) \div 5 + 1
        m == IF mp < 10 THEN mp + 3 ELSE mp - 9
    IN  [year |-> yoe + era * 400 + (IF m <= 2 THEN 1 ELSE 0), month |-> m, day |-> d]

\* The day number of 1 January of year y.
DaysOfNewYear(y) ==
    LET yy == y - 1
        era == yy \div 400
        yoe == yy - era * 400
    IN  era * 146097 + yoe * 365 + yoe \div 4 - yoe \div 100 + 306 - 719468

\* 1 = Monday .. 7 = Sunday; 1970-01-01 was a Thursday.
IsoWeekday(days) == ((days + 3) % 7) + 1

IsLeap(y) == y % 4 = 0 /\ (y % 100 # 0 \/ y % 400 = 0)

\* The number of ISO weeks of year y.
IsoWeeks(y) ==
    LET wd == IsoWeekday(DaysOfNewYear(y))
    IN  IF wd = 4 \/ (wd = 3 /\ IsLeap(y)) THEN 53 ELSE 52

\* The engine's date functions on a timestamp (session time zone UTC).
hour(st) == (st.sec % SecondsPerDay) \div (60 * 60)

dayofmonth(st) == CivilFromDays(st.sec \div SecondsPerDay).day

month(st) == CivilFromDays(st.sec \div SecondsPerDay).month

year(st) == CivilFromDays(st.sec \div SecondsPerDay).year

weekofyear(st) ==
    LET days == st.sec \div SecondsPerDay
        y == year(st)
        doy == days - DaysOfNewYear(y) + 1
        w == (doy - IsoWeekday(days) + 10) \div 7
    IN  IF w < 1 THEN IsoWeeks(y - 1)
        ELSE IF w > IsoWeeks(y) THEN 1
        ELSE w

date_format(st) ==
    <<"Mon", "Tue", "Wed", "Thu", "Fri", "Sat", "Sun">>[IsoWeekday(st.sec \div SecondsPerDay)]

\* The conversion of the raw ts (epoch milliseconds) to a date-time value:
\* the instant in whole seconds and microseconds.
date_conversion(ts) == [sec |-> ts.sec, micros |-> ts.ms * 1000]

\* event ts == time start_time, as the engine compares a number with a
\* timestamp: the number ts (sec * 1000 + ms) against the timestamp's epoch
\* seconds.
EqTsStartTime(ts, st) ==
    st.micros = 0 /\ st.sec \div 1000 = ts.sec /\ st.sec % 1000 = ts.ms

\* --------------------------------------------------------------------- state

VARIABLES
    pc,          \* the statement group the run is at
    raised_at,   \* the value of pc at which a call raised, "" while none has
    environ,     \* the AWS_* keys set in os.environ
    spark,       \* whether main holds a session
    song_data,   \* process_song_data's df: the song records read
    log_data,    \* the log events read, before the filter
    df,          \* process_log_data's df: filtered, then with start_time
    time_table,  \* process_log_data's time_table
    songs_df,    \* the songs relation read back for the join
    artists_df,  \* the artists relation read back for the join
    fs           \* the output root: directory path -> the files written there

vars == <<pc, raised_at, environ, spark, song_data, log_data, df, time_table,
          songs_df, artists_df, fs>>

\* main's paths.
input_data == "s3a://udacity-dend/"

output_data == ""

\* The statement groups of main, in program order.  main calls
\* create_spark_session, process_song_data and process_log_data one after
\* the other; the module-level configuration runs before main.
Steps ==
    <<"config", "create_spark_session",
      "song_read", "songs_write", "artists_write",
      "log_read", "users_write", "time_write", "read_back", "songplays_write">>

StepIndex(p) == CHOOSE i \in 1..Len(Steps) : Steps[i] = p

\* StepAfter with the two transforms called in the other order.
StepAfter_LogFirst(p) ==
    LET order == <<"config", "create_spark_session",
                   "log_read", "users_write", "time_write", "read_back", "songplays_write",
                   "song_read", "songs_write", "artists_write">>
        i == CHOOSE k \in 1..Len(order) : order[k] = p
    IN  IF i = Len(order) THEN "done" ELSE order[i + 1]

\* The statement group after p; after the last one main returns and the
\* process exits.
StepAfter(p) == IF StepIndex(p) = Len(Steps) THEN "done" ELSE Steps[StepIndex(p) + 1]

\* ----------------------------------------------------------------- the writes

\* df.write.parquet(path): one file holding the rows.
Unpartitioned(rows) == {[partition |-> <<>>, rows |-> rows]}

\* df.write.partitionBy(cols).parquet(path): one file per value of the
\* partition columns, holding the rows with that value.  keys[i] is the value
\* of the partition columns on row i.
PartitionBy(rows, keys) ==
    {[partition |-> k, rows |-> Filter(rows, [i \in 1..Len(rows) |-> keys[i] = k])] :
        k \in Range(keys)}

\* spark.read.parquet over the files of a directory.
ReadParquet(files) ==
    LET fseq == SetToSeq(files)
    IN  FlattenSeq([i \in 1..Len(fseq) |-> fseq[i].rows])

\* The write of files to path: the default save mode raises when the path
\* exists.
CanWrite(path) == path \notin DOMAIN fs

Written(path, files) == fs @@ (path :> files)

\* monotonically_increasing_id() for row i of a frame held in one partition:
\* the row's index in the partition, counted from 0.
monotonically_increasing_id(i) == i - 1

\* --------------------------------------------------------- process_song_data

SongsRow(r) == [title |-> r.title, artist_id |-> r.artist_id, year |-> r.year,
                duration |-> r.duration]

\* SongsTable without dropDuplicates.
SongsTable_NoDedup(records) ==
    LET t == [i \in 1..Len(records) |-> SongsRow(records[i])]
    IN  [i \in 1..Len(t) |->
            [title |-> t[i].title, artist_id |-> t[i].artist_id, year |-> t[i].year,
             duration |-> t[i].duration, song_id |-> monotonically_increasing_id(i)]]

\* The songs relation of the records.
SongsTable(records) ==
    LET t == dropDuplicates([i \in 1..Len(records) |-> SongsRow(records[i])])
    IN  [i \in 1..Len(t) |->
            [title |-> t[i].title, artist_id |-> t[i].artist_id, year |-> t[i].year,
             duration |-> t[i].duration, song_id |-> monotonically_increasing_id(i)]]

\* The partition columns of the songs write, row by row.
SongsKeys(rows) == [i \in 1..Len(rows) |-> [year |-> rows[i].year, artist_id |-> rows[i].artist_id]]

ArtistsRow(r) == [artist_id |-> r.artist_id, name |-> r.artist_name,
                  location |-> r.artist_location, latitude |-> r.artist_latitude,
                  longitude |-> r.artist_longitude]

\* ArtistsTable with the duplicates dropped on artist_id alone.
ArtistsTable_ByArtistId(records) ==
    LET all == [i \in 1..Len(records) |-> ArtistsRow(records[i])]
        u == SelectSeq([i \in 1..Len(all) |-> [i |-> i, r |-> all[i]]],
                       LAMBDA x : \A j \in 1..(x.i - 1) : all[j].artist_id # x.r.artist_id)
    IN  [i \in 1..Len(u) |->
            [artist_id |-> monotonically_increasing_id(i), name |-> u[i].r.name,
             location |-> u[i].r.location, latitude |-> u[i].r.latitude,
             longitude |-> u[i].r.longitude]]

\* The artists relation of the records: the projected rows without
\* duplicates, artist_id then overwritten with a generated id.
ArtistsTable(records) ==
    LET t == dropDuplicates([i \in 1..Len(records) |-> ArtistsRow(records[i])])
    IN  [i \in 1..Len(t) |->
            [artist_id |-> monotonically_increasing_id(i), name |-> t[i].name, location |-> t[i].location,
             latitude |-> t[i].latitude, longitude |-> t[i].longitude]]

\* ---------------------------------------------------------- process_log_data

\* The filter that keeps every page.
IsAnyPage(e) == e.page = e.page

IsNextSong(e) == e.page = "NextSong"

UsersRow(e) == [user_id |-> e.userId, first_name |-> e.firstName,
                last_name |-> e.lastName, gender |-> e.gender, level |-> e.level]

UsersTable(events) == dropDuplicates([i \in 1..Len(events) |-> UsersRow(events[i])])

\* df.withColumn("start_time", get_datetime('ts'))
WithStartTime(events) ==
    [i \in 1..Len(events) |-> [e |-> events[i], start_time |-> date_conversion(events[i].ts)]]

\* TimeRow with the month column taken from dayofmonth.
TimeRow_MonthFromDay(st) ==
    [start_time |-> st, hour |-> hour(st), day |-> dayofmonth(st),
     week |-> weekofyear(st), month |-> dayofmonth(st), year |-> year(st),
     weekday |-> date_format(st)]

TimeRow(st) == [start_time |-> st, hour |-> hour(st), day |-> dayofmonth(st),
                week |-> weekofyear(st), month |-> month(st), year |-> year(st),
                weekday |-> date_format(st)]

TimeTable(events) ==
    LET t == dropDuplicates([i \in 1..Len(events) |-> events[i].start_time])
    IN  [i \in 1..Len(t) |-> TimeRow(t[i])]

\* The partition columns of the time write, row by row.
TimeKeys(rows) == [i \in 1..Len(rows) |-> [year |-> rows[i].year, month |-> rows[i].month]]

\* The paths of the read-back; the globs after them select every file below.
songs_read_path == output_data \o "song_data/"

artists_read_path == output_data \o "artists/"

\* What a directory the run did not write may hold is nothing the run
\* controls: here, the songs relation of any set of these records.
LocalRecords == {r \in SongRecords : r.title = "t1" /\ r.artist_name = "n1"}

LocalTables == {SongsTable(SetToSeq(S)) : S \in SUBSET LocalRecords}

\* The frames spark.read.parquet(path) can return.
Stored(path) == IF path \in DOMAIN fs THEN {ReadParquet(fs[path])} ELSE LocalTables

\* df.join(songs_df, df.song == song_df.title)
JoinSongs(events, songs) ==
    LET on == [i \in 1..Len(events) |-> [j \in 1..Len(songs) |->
                  EqStr(events[i].e.song, songs[j].title)]]
        pairs == Join(events, songs, on)
    IN  [k \in 1..Len(pairs) |-> [ev |-> pairs[k][1], song |-> pairs[k][2]]]

\* songs_logs_joined_df.join(artists_df, songs_logs_joined_df.artist == artists_df.name)
JoinArtists(joined, artists) ==
    LET on == [i \in 1..Len(joined) |-> [j \in 1..Len(artists) |->
                  EqStr(joined[i].ev.e.artist, artists[j].name)]]
        pairs == Join(joined, artists, on)
    IN  [k \in 1..Len(pairs) |->
            [ev |-> pairs[k][1].ev, song |-> pairs[k][1].song, artist |-> pairs[k][2]]]

\* artists_songs_logs_joined_df.join(time_table, ts == start_time, "left")
JoinTime(joined, times) ==
    LET on == [i \in 1..Len(joined) |-> [j \in 1..Len(times) |->
                  EqTsStartTime(joined[i].ev.e.ts, times[j].start_time)]]
        pairs == LeftJoin(joined, times, on)
    IN  [k \in 1..Len(pairs) |->
            [ev |-> pairs[k][1].ev, song |-> pairs[k][1].song,
             artist |-> pairs[k][1].artist, time |-> pairs[k][2]]]

\* The final select on a joined row.  year of the songs side is dropped, so
\* year and month are the time side's.  start_time, artist_id and location
\* name a column on two sides of the join; first tells whether the select
\* takes the leftmost or the rightmost of them.
SongplaysRow(j, first) ==
    [start_time |-> IF first THEN Some(j.ev.start_time)
                    ELSE IF j.time = Null THEN Null ELSE Some(j.time[1].start_time),
     user_id |-> j.ev.e.userId,
     level |-> j.ev.e.level,
     song_id |-> Some(j.song.song_id),
     artist_id |-> IF first THEN Some(j.song.artist_id) ELSE Some(j.artist.artist_id),
     session_id |-> j.ev.e.sessionId,
     location |-> IF first THEN j.ev.e.location ELSE j.artist.location,
     user_agent |-> j.ev.e.userAgent,
     year |-> IF j.time = Null THEN Null ELSE Some(j.time[1].year),
     month |-> IF j.time = Null THEN Null ELSE Some(j.time[1].month)]

SongplaysTable(events, songs, artists, times, first) ==
    LET joined == JoinTime(JoinArtists(JoinSongs(events, songs), artists), times)
    IN  [i \in 1..Len(joined) |-> SongplaysRow(joined[i], first)]

\* The partition columns of the songplays write, row by row.
SongplaysKeys(rows) == [i \in 1..Len(rows) |-> [year |-> rows[i].year, month |-> rows[i].month]]

\* ------------------------------------------------------------------- actions

Init ==
    /\ pc = "config"
    /\ raised_at = ""
    /\ environ = {}
    /\ spark = FALSE
    /\ song_data = <<>>
    /\ log_data = <<>>
    /\ df = <<>>
    /\ time_table = <<>>
    /\ songs_df = <<>>
    /\ artists_df = <<>>
    /\ fs = <<>>

\* Module level: read dl.cfg and export the two keys.
LoadConfig ==
    /\ pc = "config"
    /\ environ' = {"AWS_ACCESS_KEY_ID", "AWS_SECRET_ACCESS_KEY"}
    /\ pc' = StepAfter(pc)
    /\ UNCHANGED <<raised_at, spark, song_data, log_data, df, time_table,
                   songs_df, artists_df, fs>>

create_spark_session ==
    /\ pc = "create_spark_session"
    /\ spark' = TRUE
    /\ pc' = StepAfter(pc)
    /\ UNCHANGED <<raised_at, environ, song_data, log_data, df, time_table,
                   songs_df, artists_df, fs>>

ReadSongData ==
    /\ pc = "song_read"
    /\ \E f \in Frames(SongPool, MaxSongs) : song_data' = f
    /\ pc' = StepAfter(pc)
    /\ UNCHANGED <<raised_at, environ, spark, log_data, df, time_table,
                   songs_df, artists_df, fs>>

WriteSongsTable ==
    /\ pc = "songs_write"
    /\ CanWrite(output_data \o "songs/")
    /\ fs' = Written(output_data \o "songs/", PartitionBy(SongsTable(song_data), SongsKeys(SongsTable(song_data))))
    /\ pc' = StepAfter(pc)
    /\ UNCHANGED <<raised_at, environ, spark, song_data, log_data, df, time_table,
                   songs_df, artists_df>>

WriteArtistsTable ==
    /\ pc = "artists_write"
    /\ CanWrite(output_data \o "artists/")
    /\ fs' = Written(output_data \o "artists/", Unpartitioned(ArtistsTable(song_data)))
    /\ pc' = StepAfter(pc)
    /\ UNCHANGED <<raised_at, environ, spark, song_data, log_data, df, time_table,
                   songs_df, artists_df>>

ReadLogData ==
    /\ pc = "log_read"
    /\ \E f \in Frames(LogPool, MaxEvents) :
          /\ log_data' = f
          /\ df' = Filter(f, [i \in 1..Len(f) |-> IsNextSong(f[i])])
    /\ pc' = StepAfter(pc)
    /\ UNCHANGED <<raised_at, environ, spark, song_data, time_table,
                   songs_df, artists_df, fs>>

WriteUsersTable ==
    /\ pc = "users_write"
    /\ CanWrite(output_data \o "users/")
    /\ fs' = Written(output_data \o "users/", Unpartitioned(UsersTable(df)))
    /\ pc' = StepAfter(pc)
    /\ UNCHANGED <<raised_at, environ, spark, song_data, log_data, df, time_table,
                   songs_df, artists_df>>

WriteTimeTable ==
    /\ pc = "time_write"
    /\ CanWrite(output_data \o "time/")
    /\ df' = WithStartTime(df)
    /\ time_table' = TimeTable(df')
    /\ fs' = Written(output_data \o "time/", PartitionBy(time_table', TimeKeys(time_table')))
    /\ pc' = StepAfter(pc)
    /\ UNCHANGED <<raised_at, environ, spark, song_data, log_data,
                   songs_df, artists_df>>

ReadSongsAndArtists ==
    /\ pc = "read_back"
    /\ \E s \in Stored(songs_read_path), a \in Stored(artists_read_path) :
          /\ songs_df' = s
          /\ artists_df' = a
    /\ pc' = StepAfter(pc)
    /\ UNCHANGED <<raised_at, environ, spark, song_data, log_data, df, time_table, fs>>

WriteSongplaysTable ==
    /\ pc = "songplays_write"
    /\ CanWrite(output_data \o "songplays/")
    /\ \E first \in BOOLEAN :
          LET songplays_table == SongplaysTable(df, songs_df, artists_df, time_table, first)
          IN  fs' = Written(output_data \o "songplays/",
                            PartitionBy(songplays_table, SongplaysKeys(songplays_table)))
    /\ pc' = StepAfter(pc)
    /\ UNCHANGED <<raised_at, environ, spark, song_data, log_data, df, time_table,
                   songs_df, artists_df>>

\* Raise with the output root cleared on the way out.
Raise_CleansUp ==
    /\ pc \in Range(Steps)
    /\ raised_at' = pc
    /\ pc' = "raised"
    /\ fs' = <<>>
    /\ UNCHANGED <<environ, spark, song_data, log_data, df, time_table,
                   songs_df, artists_df>>

\* A call of the current statement group raises.  Nothing catches it: the
\* run ends there, with what was written left as it is.
Raise ==
    /\ pc \in Range(Steps)
    /\ raised_at' = pc
    /\ pc' = "raised"
    /\ UNCHANGED <<environ, spark, song_data, log_data, df, time_table,
                   songs_df, artists_df, fs>>

Next ==
    \/ LoadConfig
    \/ create_spark_session
    \/ ReadSongData
    \/ WriteSongsTable
    \/ WriteArtistsTable
    \/ ReadLogData
    \/ WriteUsersTable
    \/ WriteTimeTable
    \/ ReadSongsAndArtists
    \/ WriteSongplaysTable
    \/ Raise

Spec == Init /\ [][Next]_vars

\* ------------------------------------------------------ what the claims read

IsWritten(name) == (output_data \o name) \in DOMAIN fs

\* The rows of a relation the run wrote.
Rows(name) == ReadParquet(fs[output_data \o name])

\* The files of a relation the run wrote.
Files(name) == fs[output_data \o name]

\* The log events read whose page is / is not "NextSong".
Played == {log_data[i] : i \in {j \in 1..Len(log_data) : log_data[j].page = "NextSong"}}

NotPlayed == {log_data[i] : i \in {j \in 1..Len(log_data) : log_data[j].page # "NextSong"}}

\* The date-time value of a raw ts.
InstantOf(ts) == [sec |-> ts.sec, micros |-> 1000 * ts.ms]

\* How many rows of the songs / artists frame of the join carry the event's
\* song title / artist name.
TitleMatches(e) == Cardinality({i \in 1..Len(songs_df) : songs_df[i].title = e.song})

NameMatches(e) == Cardinality({i \in 1..Len(artists_df) : artists_df[i].name = e.artist})

\* ------------------------------------------------------------------------ C1

\* C1: every row of the users, time and songplays relations derives from a
\* log event with page "NextSong": a users row is the user columns of such
\* an event, a time row's start_time is the instant of such an event's ts,
\* and a songplays row carries the user, level, session and user agent of
\* such an event (and its instant, where start_time is not null).
C1_OnlyNextSong ==
    /\ IsWritten("users/") =>
          \A r \in Range(Rows("users/")) : \E e \in Played :
              /\ r.user_id = e.userId /\ r.first_name = e.firstName
              /\ r.last_name = e.lastName /\ r.gender = e.gender /\ r.level = e.level
    /\ IsWritten("time/") =>
          \A r \in Range(Rows("time/")) : \E e \in Played : r.start_time = InstantOf(e.ts)
    /\ IsWritten("songplays/") =>
          \A r \in Range(Rows("songplays/")) : \E e \in Played :
              /\ r.user_id = e.userId /\ r.level = e.level
              /\ r.session_id = e.sessionId /\ r.user_agent = e.userAgent
              /\ r.start_time \in {Null, Some(InstantOf(e.ts))}

\* A finished run whose log held a "Home" event of a user and an instant no
\* played event has, beside a played event that reached songplays.
C1_Witness ==
    /\ pc = "done"
    /\ Rows("songplays/") # <<>>
    /\ \E h \in NotPlayed : \A e \in Played : h.userId # e.userId /\ h.ts # e.ts

\* ------------------------------------------------------------------------ C2

SongKeyOf(r) == <<r.title, r.artist_id, r.year, r.duration>>

\* C2: the songs relation holds exactly one row for each (title, artist_id,
\* year, duration) of the song records read, no other row, and no two rows
\* with the same song_id.
C2_SongsDistinct ==
    IsWritten("songs/") =>
        LET rows == Rows("songs/")
        IN  /\ \A i \in 1..Len(song_data) :
                  Cardinality({k \in 1..Len(rows) : SongKeyOf(rows[k]) = SongKeyOf(song_data[i])}) = 1
            /\ \A r \in Range(rows) : \E i \in 1..Len(song_data) : SongKeyOf(r) = SongKeyOf(song_data[i])
            /\ \A i, j \in 1..Len(rows) : rows[i].song_id = rows[j].song_id => i = j

\* Two records with the same four values were read and the songs relation
\* written holds one row.
C2_Witness ==
    /\ IsWritten("songs/")
    /\ \E i, j \in 1..Len(song_data) : i # j /\ SongKeyOf(song_data[i]) = SongKeyOf(song_data[j])
    /\ Len(Rows("songs/")) = 1

\* ------------------------------------------------------------------------ C3

\* The part of main a statement group belongs to.
PartOf(p) ==
    CASE p = "config" -> 1
      [] p = "create_spark_session" -> 2
      [] p \in {"song_read", "songs_write", "artists_write"} -> 3
      [] p \in {"log_read", "users_write", "time_write", "read_back", "songplays_write"} -> 4
      [] p = "done" -> 5

\* C3: a run goes through load config, create session, song transform, log
\* transform, exit in that order, one part after the other; the log
\* transform runs only with the songs and artists relations written; a run
\* that raises goes no further, and one that raised in the song transform
\* has read no log event and written none of users, time, songplays.
C3_LinearOrder ==
    /\ [][/\ pc # "raised" /\ pc' # "raised" => PartOf(pc') \in {PartOf(pc), PartOf(pc) + 1}
          /\ pc = "raised" => pc' = "raised"
          /\ pc' = "raised" /\ pc # "raised" => raised_at' = pc]_vars
    /\ [](pc \notin {"raised", "done"} /\ PartOf(pc) >= 2 => environ # {})
    /\ [](pc \notin {"raised", "done"} /\ PartOf(pc) >= 3 => spark)
    /\ [](pc \notin {"raised"} /\ PartOf(pc) >= 4 => IsWritten("songs/") /\ IsWritten("artists/"))
    /\ [](pc = "raised" /\ PartOf(raised_at) <= 3 =>
            /\ log_data = <<>>
            /\ ~IsWritten("users/") /\ ~IsWritten("time/") /\ ~IsWritten("songplays/"))

\* A run that went through every part.
C3_Witness ==
    /\ pc = "done"
    /\ \A d \in {"songs/", "artists/", "users/", "time/", "songplays/"} : IsWritten(d)

\* ------------------------------------------------------------------------ C4

\* C4: the songplays relation holds one row per played event: as many rows
\* as log events with page "NextSong" were read.
C4_OneRowPerPlayedEvent ==
    IsWritten("songplays/") =>
        Len(Rows("songplays/")) = Cardinality({i \in 1..Len(log_data) : log_data[i].page = "NextSong"})

\* ------------------------------------------------------------------------ C5

\* A played event whose title is on no songs row or whose artist is on no
\* artists row of the join.
Unmatched(e) == e.page = "NextSong" /\ (TitleMatches(e) = 0 \/ NameMatches(e) = 0)

\* C5: a played event without a match still has its songplays row, with
\* null song_id or artist_id.
C5_UnmatchedKeptWithNulls ==
    IsWritten("songplays/") =>
        \A i \in 1..Len(log_data) : Unmatched(log_data[i]) =>
            \E r \in Range(Rows("songplays/")) :
                /\ r.user_id = log_data[i].userId
                /\ r.song_id = Null \/ r.artist_id = Null

\* ------------------------------------------------------------------------ C6

\* The day number of the first day of month m of year y.
MonthStart(y, m) ==
    LET yy == IF m <= 2 THEN y - 1 ELSE y
        era == yy \div 400
        yoe == yy - era * 400
        mp == IF m > 2 THEN m - 3 ELSE m + 9
        doy == (153 * mp + 2) \div 5
    IN  era * 146097 + yoe * 365 + yoe \div 4 - yoe \div 100 + doy - 719468

NextMonthStart(y, m) == IF m = 12 THEN MonthStart(y + 1, 1) ELSE MonthStart(y, m + 1)

\* C6: every time row has hour in 0..23 and month in 1..12, its start_time
\* lies in month `month` of year `year`, at hour `hour` of its day, and the
\* row is in the file of the partition (year, month).
C6_TimeColumns ==
    IsWritten("time/") =>
        \A f \in Files("time/") : \A r \in Range(f.rows) :
            LET day == r.start_time.sec \div 86400
            IN  /\ r.hour \in 0..23
                /\ r.month \in 1..12
                /\ MonthStart(r.year, r.month) <= day
                /\ day < NextMonthStart(r.year, r.month)
                /\ r.hour * 3600 <= r.start_time.sec - day * 86400
                /\ r.start_time.sec - day * 86400 < (r.hour + 1) * 3600
                /\ f.partition = [year |-> r.year, month |-> r.month]

\* The time relation of two played events either side of midnight between
\* November and December: two partitions.
C6_Witness ==
    /\ IsWritten("time/")
    /\ \E f, g \in Files("time/") :
          /\ f.partition.month = 11 /\ g.partition.month = 12
          /\ f.rows # <<>> /\ g.rows # <<>>

\* ------------------------------------------------------------------------ C7

ArtistKeyOf(r) == <<r.artist_id, r.artist_name, r.artist_location,
                    r.artist_latitude, r.artist_longitude>>

\* C7 as claimed: the artists relation holds one row per artist_id read.
C7_OneRowPerArtistId ==
    IsWritten("artists/") =>
        Len(Rows("artists/")) = Cardinality({song_data[i].artist_id : i \in 1..Len(song_data)})

\* C7 as amended: the artists relation holds one row per (artist_id,
\* artist_name, artist_location, artist_latitude, artist_longitude) read:
\* as many rows as there are such combinations, and for each name, location,
\* latitude and longitude as many rows as artist_ids were read with them.
C7_OneRowPerArtistRecord ==
    IsWritten("artists/") =>
        LET rows == Rows("artists/")
            keys == {ArtistKeyOf(song_data[i]) : i \in 1..Len(song_data)}
        IN  /\ Len(rows) = Cardinality(keys)
            /\ \A k \in keys :
                  Cardinality({i \in 1..Len(rows) :
                      <<rows[i].name, rows[i].location, rows[i].latitude, rows[i].longitude>>
                          = <<k[2], k[3], k[4], k[5]>>})
                  = Cardinality({a \in ArtistIds : <<a, k[2], k[3], k[4], k[5]>> \in keys})
            /\ \A r \in Range(rows) : \E k \in keys :
                  <<r.name, r.location, r.latitude, r.longitude>> = <<k[2], k[3], k[4], k[5]>>

\* Two records of one artist_id with two names were read and the artists
\* relation written holds two rows.
C7_Witness ==
    /\ IsWritten("artists/")
    /\ \E i, j \in 1..Len(song_data) :
          /\ song_data[i].artist_id = song_data[j].artist_id
          /\ song_data[i].artist_name # song_data[j].artist_name
    /\ Len(Rows("artists/")) = 2

\* ------------------------------------------------------------------------ C8

WrittenBefore(p) ==
    CASE p \in {"config", "create_spark_session", "song_read", "songs_write"} -> {}
      [] p = "artists_write" -> {"songs/"}
      [] p \in {"log_read", "users_write"} -> {"songs/", "artists/"}
      [] p = "time_write" -> {"songs/", "artists/", "users/"}
      [] p \in {"read_back", "songplays_write"} -> {"songs/", "artists/", "users/", "time/"}

\* C9: what is written stays written and unchanged; a run that raised has
\* exactly the relations written before the statement group that raised, and
\* takes no further step.
C9_NoRollback ==
    /\ [][/\ \A d \in DOMAIN fs : d \in DOMAIN fs' /\ fs'[d] = fs[d]
          /\ pc = "raised" => UNCHANGED vars]_vars
    /\ [](pc = "raised" => DOMAIN fs = {output_data \o d : d \in WrittenBefore(raised_at)})

\* A run that raised writing the time relation, after three relations.
C9_Witness ==
    /\ pc = "raised"
    /\ raised_at = "time_write"
    /\ IsWritten("songs/") /\ IsWritten("artists/") /\ IsWritten("users/")
    /\ Rows("users/") # <<>>

\* ----------------------------------------------------------------------- C10

\* C10: the songs and artists frames of the join are the relations this run
\* wrote.
C10_ReadsWhatWasWritten ==
    pc = "songplays_write" =>
        /\ songs_df = Rows("songs/")
        /\ artists_df = Rows("artists/")

====
